---- MODULE Spec2Model ----
(***************************************************************************)
(* Model of the PWA core of lumina-ai-rag:                                 *)
(*   - the service worker (public/sw.js: install, activate, fetch and      *)
(*     message listeners over the origin's CacheStorage), specification    *)
(*     SpecSW;                                                             *)
(*   - the usePWAInstall React hook (install-prompt capture, installed     *)
(*     detection, promptInstall), specification SpecHook;                  *)
(*   - the useDataManagement React hook (file list, upload, indexing),     *)
(*     specification SpecData.                                             *)
(***************************************************************************)
EXTENDS Integers, Sequences, FiniteSets, TLC

(***************************************************************************)
(* Bounds of the model.                                                    *)
(***************************************************************************)
\* Number of fetch events the worker receives in one run.
MaxFetch == 2
\* Number of promptInstall() calls made in one run.
MaxCalls == 2
\* Number of beforeinstallprompt events the browser fires in one run.
MaxEvents == 2
\* Number of handleFileUpload() calls made in one run.
MaxUploads == 2
\* Number of indexDocuments() calls made in one run.
MaxIndexCalls == 2

(***************************************************************************)
(* String helpers: String.prototype.startsWith / includes, computed on the *)
(* characters.                                                             *)
(***************************************************************************)
StartsWith(s, p) == Len(s) >= Len(p) /\ SubSeq(s, 1, Len(p)) = p

Includes(s, p) ==
    \E i \in 1..(Len(s) - Len(p) + 1) : SubSeq(s, i, i + Len(p) - 1) = p

\* Index of the first "/" at or after position i (0 when there is none).
RECURSIVE SlashFrom(_, _)
SlashFrom(s, i) ==
    IF i > Len(s) THEN 0
    ELSE IF SubSeq(s, i, i) = "/" THEN i
    ELSE SlashFrom(s, i + 1)

\* Position of the "//" that ends the scheme (0 when there is none).
RECURSIVE SchemeEnd(_, _)
SchemeEnd(s, i) ==
    IF i + 1 > Len(s) THEN 0
    ELSE IF SubSeq(s, i, i + 1) = "//" THEN i + 1
    ELSE SchemeEnd(s, i + 1)

\* new URL(href).origin : scheme and host, up to the first "/" of the path.
UrlOrigin(href) ==
    LET e == SchemeEnd(href, 1)
        p == SlashFrom(href, e + 1)
    IN IF p = 0 THEN href ELSE SubSeq(href, 1, p - 1)

\* new URL(href).pathname : from the first "/" after the host.
UrlPathname(href) ==
    LET e == SchemeEnd(href, 1)
        p == SlashFrom(href, e + 1)
    IN IF p = 0 THEN "/" ELSE SubSeq(href, p, Len(href))

(***************************************************************************)
(* The service worker's constants.                                         *)
(***************************************************************************)
CACHE_NAME == "lumina-rag-v1"
STATIC_CACHE_NAME == "lumina-rag-static-v1"
DYNAMIC_CACHE_NAME == "lumina-rag-dynamic-v1"

STATIC_ASSETS ==
    << "/", "/index.html", "/lumina.svg", "/manifest.json",
       "/src/main.tsx", "/src/App.tsx", "/src/index.css" >>

\* location.origin of the worker.
LocationOrigin == "https://lumina.app"

\* new Request(url) with a relative url: resolved against the worker's location.
Resolve(url) == IF StartsWith(url, "/") THEN LocationOrigin \o url ELSE url

(***************************************************************************)
(* Responses. Undefined stands for JavaScript's undefined (caches.match    *)
(* without a match).                                                       *)
(***************************************************************************)
Undefined == [status |-> 0, type |-> "undefined", body |-> "", from |-> "none"]

\* A response of the network for href.
NetResponse(href, status, type) ==
    [status |-> status, type |-> type, body |-> href, from |-> "network"]

\* The response the fetch handler synthesizes when the network fails.
OfflineResponse ==
    [status |-> 503, type |-> "default",
     body |-> "Offline - content not available", from |-> "worker"]

\* A response an earlier generation of the application left in a cache.
OldResponse(href) ==
    [status |-> 200, type |-> "basic", body |-> href, from |-> "old"]

IsResponse(r) == r # Undefined

\* What the network may answer to a same-origin fetch that does not reject.
NetKinds ==
    { [status |-> 200, type |-> "basic"],
      [status |-> 404, type |-> "basic"],
      [status |-> 200, type |-> "opaqueredirect"] }

(***************************************************************************)
(* CacheStorage: a sequence, in creation order, of [name, entries], where  *)
(* entries maps request keys (absolute URLs) to responses.                 *)
(***************************************************************************)
NoEntries == [k \in {} |-> Undefined]

CacheNames(cs) == { cs[i].name : i \in 1..Len(cs) }

\* caches.keys()
CachesKeys(cs) == [i \in 1..Len(cs) |-> cs[i].name]

\* caches.has(name)
CachesHas(cs, name) == name \in CacheNames(cs)

\* caches.open(name): creates the cache when it does not exist.
CachesOpen(cs, name) ==
    IF CachesHas(cs, name) THEN cs
    ELSE Append(cs, [name |-> name, entries |-> NoEntries])

\* caches.delete(name)
CachesDelete(cs, name) == SelectSeq(cs, LAMBDA c : c.name # name)

\* cache.put(key, response) on the cache called name; the entry for the key
\* is overwritten. A put into a cache deleted meanwhile is not visible.
CachePut(cs, name, key, resp) ==
    [i \in 1..Len(cs) |->
        IF cs[i].name = name
        THEN [cs[i] EXCEPT !.entries = (key :> resp) @@ cs[i].entries]
        ELSE cs[i]]

\* cache.addAll(keys), all fetched: every entry is committed in one batch.
\* resps is the function from each key to the response fetched for it.
CachePutAll(cs, name, resps) ==
    [i \in 1..Len(cs) |->
        IF cs[i].name = name
        THEN [cs[i] EXCEPT !.entries = resps @@ cs[i].entries]
        ELSE cs[i]]

\* The entries of the cache called name (none when it does not exist).
EntriesOf(cs, name) ==
    IF CachesHas(cs, name)
    THEN (CHOOSE c \in {cs[i] : i \in 1..Len(cs)} : c.name = name).entries
    ELSE NoEntries

\* caches.match(key): the entry of the first cache, in creation order, that
\* holds the key; undefined when none does.
RECURSIVE MatchFrom(_, _, _)
MatchFrom(cs, key, i) ==
    IF i > Len(cs) THEN Undefined
    ELSE IF key \in DOMAIN cs[i].entries THEN cs[i].entries[key]
    ELSE MatchFrom(cs, key, i + 1)

CachesMatch(cs, key) == MatchFrom(cs, key, 1)

(***************************************************************************)
(* State.                                                                  *)
(***************************************************************************)
VARIABLES
    \* ---- service worker ----
    swState,        \* ServiceWorker.state
    skipWaitingFlag,\* set by self.skipWaiting()
    oldActive,      \* an earlier worker still controls open pages
    caches,         \* the origin's CacheStorage
    installPc,      \* position of the install listener's promise chain
    installFailed,  \* cache.addAll rejected (some manifest fetch failed)
    installPromise, \* the promise given to event.waitUntil by install
    activatePc,     \* position of the activate listener's promise chain
    toDelete,       \* caches.delete calls of activate not yet completed
    claimed,        \* self.clients.claim() was called
    deleted,        \* names of the caches activate has deleted
    fetches,        \* the fetch listener's runs, one per fetch event
    cacheUrls,      \* the message listener's run for a CACHE_URLS message
    \* ---- usePWAInstall ----
    phase,          \* "rendered" (effect not yet run), "mounted", "unmounted"
    canInstall,
    isInstalled,
    isPrompting,
    deferredPrompt, \* the captured beforeinstallprompt event, or NoEvent
    renderedPrompt, \* deferredPrompt as captured by the promptInstall closure
                    \* of the latest render
    closures,       \* values captured by promptInstall closures of all renders
    signals,        \* the three installed signals of the browser
    fired,          \* number of beforeinstallprompt events captured so far
    prompts,        \* per event: number of prompt() invocations
    choice,         \* per event: state of its userChoice promise
    calls,          \* the promptInstall() calls, one record per call
    listeners,      \* the event listeners registered on window
    timers,         \* the active intervals of the page
    byPoll,         \* isInstalled was last raised to true by a poll tick
    sinceDone,      \* a promptInstall() call that held a capture has
                    \* completed and no event was captured since
    \* ---- useDataManagement ----
    files,          \* the file list
    renderedFiles,  \* files as captured by the closures of the latest render
    isIndexing,
    ragStatus,
    uploads,        \* the handleFileUpload() calls, one record per call
    indexCalls,     \* the indexDocuments() calls, one record per call
    removed         \* ids that removeFile was called with

swVars == << swState, skipWaitingFlag, oldActive, caches, installPc,
             installFailed, installPromise, activatePc, toDelete, claimed,
             deleted, fetches, cacheUrls >>

hookVars == << phase, canInstall, isInstalled, isPrompting, deferredPrompt,
               renderedPrompt, closures, signals, fired, prompts, choice,
               calls, listeners, timers, byPoll, sinceDone >>

dataVars == << files, renderedFiles, isIndexing, ragStatus, uploads,
               indexCalls, removed >>

vars == << swVars, hookVars, dataVars >>

(***************************************************************************)
(* Service worker: the requests the pages may issue.                       *)
(***************************************************************************)
IndexUrl == Resolve("/index.html")

Requests ==
    { [url |-> IndexUrl, destination |-> "document"],
      [url |-> LocationOrigin \o "/docs", destination |-> "document"],
      [url |-> LocationOrigin \o "/assets/app.js", destination |-> "script"],
      [url |-> "https://cdn.example/lib.js", destination |-> "script"],
      [url |-> LocationOrigin \o "/workers/rag.js", destination |-> "worker"],
      [url |-> LocationOrigin \o "/node_modules/x/y.js", destination |-> "script"],
      [url |-> "chrome-extension://abcdef/content.js", destination |-> "script"] }

NoRequest == [url |-> "", destination |-> ""]

\* The guards of the fetch listener that return before respondWith.
IsCrossOrigin(req) == UrlOrigin(req.url) # LocationOrigin

IsExcluded(req) ==
    \/ Includes(UrlPathname(req.url), "/workers/")
    \/ Includes(UrlPathname(req.url), "/node_modules/")
    \/ StartsWith(req.url, "chrome-extension://")
    \/ StartsWith(req.url, "moz-extension://")

\* Mutant of Bypasses: only the cross-origin guard.
BypassesCrossOriginOnly(req) == IsCrossOrigin(req)

Bypasses(req) == IsCrossOrigin(req) \/ IsExcluded(req)

\* Mutant of IsCacheable: the status of the response is not tested.
IsCacheableAnyStatus(resp) ==
    ~ (~IsResponse(resp) \/ resp.type # "basic")

\* The network branch caches only status 200, type basic.
IsCacheable(resp) ==
    ~ (~IsResponse(resp) \/ resp.status # 200 \/ resp.type # "basic")

\* Caches an earlier generation or another application left behind.
PreExisting ==
    << [name |-> CACHE_NAME,
        entries |-> (IndexUrl :> OldResponse(IndexUrl))],
       [name |-> "lumina-rag-static-v0",
        entries |-> (LocationOrigin \o "/assets/app.js"
                        :> OldResponse(LocationOrigin \o "/assets/app.js"))],
       [name |-> "workbox-precache-v2",
        entries |-> (LocationOrigin \o "/docs"
                        :> OldResponse(LocationOrigin \o "/docs"))] >>

RECURSIVE Pick(_, _, _)
Pick(seq, idx, i) ==
    IF i > Len(seq) THEN << >>
    ELSE IF i \in idx THEN << seq[i] >> \o Pick(seq, idx, i + 1)
    ELSE Pick(seq, idx, i + 1)

\* What the origin's CacheStorage holds when the worker is first run: nothing
\* (first visit), the cache of another application only, or that and the
\* caches of two earlier generations (upgrade).
InitialCaches == { {}, {Len(PreExisting)}, 1..Len(PreExisting) }

IdleFetch ==
    [pc |-> "idle", req |-> NoRequest, resp |-> Undefined,
     net |-> FALSE, failed |-> FALSE, hit |-> FALSE, put |-> "none",
     clone |-> Undefined]

\* No CACHE_URLS message received yet.
IdleCacheUrls == [pc |-> "idle", urls |-> << >>, fetched |-> {}]

InitSW ==
    /\ swState = "parsed"
    /\ skipWaitingFlag = FALSE
    /\ oldActive \in BOOLEAN
    /\ caches \in { Pick(PreExisting, idx, 1) : idx \in InitialCaches }
    /\ installPc = "idle"
    /\ installFailed = FALSE
    /\ installPromise = "pending"
    /\ activatePc = "idle"
    /\ toDelete = {}
    /\ claimed = FALSE
    /\ deleted = {}
    /\ fetches = [i \in 1..MaxFetch |-> IdleFetch]
    /\ cacheUrls = IdleCacheUrls

(***************************************************************************)
(* Service worker: install listener.                                       *)
(***************************************************************************)
StaticKeys == { Resolve(STATIC_ASSETS[i]) : i \in 1..Len(STATIC_ASSETS) }

StaticResponse(key) == NetResponse(key, 200, "basic")

\* The browser dispatches the install event.
InstallEvent ==
    /\ swState = "parsed"
    /\ swState' = "installing"
    /\ installPc' = "open"
    /\ UNCHANGED << hookVars, dataVars, cacheUrls, deleted, skipWaitingFlag, oldActive, caches, installFailed,
                    installPromise, activatePc, toDelete, claimed, fetches >>

\* caches.open(STATIC_CACHE_NAME)
InstallOpen ==
    /\ installPc = "open"
    /\ caches' = CachesOpen(caches, STATIC_CACHE_NAME)
    /\ installPc' = "addAll"
    /\ UNCHANGED << hookVars, dataVars, cacheUrls, deleted, swState, skipWaitingFlag, oldActive, installFailed,
                    installPromise, activatePc, toDelete, claimed, fetches >>

\* cache.addAll(STATIC_ASSETS...): bad is the set of manifest URLs whose fetch
\* fails (rejects or is not ok). addAll commits all entries or none.
InstallAddAll ==
    /\ installPc = "addAll"
    /\ \E bad \in SUBSET StaticKeys :
          IF bad = {}
          THEN /\ caches' = CachePutAll(caches, STATIC_CACHE_NAME,
                                 [k \in StaticKeys |-> StaticResponse(k)])
               /\ installFailed' = FALSE
               /\ installPc' = "skipWaiting"
          ELSE /\ caches' = caches
               /\ installFailed' = TRUE
               /\ installPc' = "catch"
    /\ UNCHANGED << hookVars, dataVars, cacheUrls, deleted, swState, skipWaitingFlag, oldActive, installPromise,
                    activatePc, toDelete, claimed, fetches >>

\* .then(() => self.skipWaiting()): the chain resolves.
InstallSkipWaiting ==
    /\ installPc = "skipWaiting"
    /\ skipWaitingFlag' = TRUE
    /\ installPromise' = "resolved"
    /\ installPc' = "done"
    /\ UNCHANGED << hookVars, dataVars, cacheUrls, deleted, swState, oldActive, caches, installFailed, activatePc,
                    toDelete, claimed, fetches >>

\* What the chain's .catch handler leaves of the promise given to waitUntil:
\* the handler logs and returns, so the promise resolves.
InstallCatchResult == "resolved"

\* .catch((error) => console.error(...))
InstallCatch ==
    /\ installPc = "catch"
    /\ installPromise' = InstallCatchResult
    /\ installPc' = "done"
    /\ UNCHANGED << hookVars, dataVars, cacheUrls, deleted, swState, skipWaitingFlag, oldActive, caches,
                    installFailed, activatePc, toDelete, claimed, fetches >>

\* The browser ends the install: the worker is installed when the promise
\* given to waitUntil resolved, redundant when it rejected.
InstallSettled ==
    /\ swState = "installing"
    /\ installPromise # "pending"
    /\ swState' = IF installPromise = "resolved" THEN "installed"
                  ELSE "redundant"
    /\ UNCHANGED << hookVars, dataVars, cacheUrls, deleted, skipWaitingFlag, oldActive, caches, installPc,
                    installFailed, installPromise, activatePc, toDelete,
                    claimed, fetches >>

(***************************************************************************)
(* Service worker: activate listener.                                      *)
(***************************************************************************)
\* The pages the earlier worker controlled are closed.
OldWorkerGone ==
    /\ oldActive
    /\ oldActive' = FALSE
    /\ UNCHANGED << hookVars, dataVars, cacheUrls, deleted, swState, skipWaitingFlag, caches, installPc,
                    installFailed, installPromise, activatePc, toDelete,
                    claimed, fetches >>

\* The browser activates a waiting worker once nothing holds it back, and
\* dispatches the activate event.
ActivateEvent ==
    /\ swState = "installed"
    /\ skipWaitingFlag \/ ~oldActive
    /\ swState' = "activating"
    /\ oldActive' = FALSE
    /\ activatePc' = "keys"
    /\ UNCHANGED << hookVars, dataVars, cacheUrls, deleted, skipWaitingFlag, caches, installPc, installFailed,
                    installPromise, toDelete, claimed, fetches >>

\* Mutant of IsStale: the filter compares with the unused CACHE_NAME
\* instead of the two current generation names.
IsStaleByCacheName(cacheName) ==
    /\ cacheName # CACHE_NAME
    /\ StartsWith(cacheName, "lumina-rag-")

\* Mutant of IsStale: the filter without the test of the name's prefix.
IsStaleNoPrefix(cacheName) ==
    /\ cacheName # STATIC_CACHE_NAME
    /\ cacheName # DYNAMIC_CACHE_NAME

\* The filter of the activate listener: the caches to delete.
IsStale(cacheName) ==
    /\ cacheName # STATIC_CACHE_NAME
    /\ cacheName # DYNAMIC_CACHE_NAME
    /\ StartsWith(cacheName, "lumina-rag-")

\* caches.keys().then(...): every delete of Promise.all is started.
ActivateKeys ==
    /\ activatePc = "keys"
    /\ toDelete' = { n \in CacheNames(caches) : IsStale(n) }
    /\ activatePc' = "deleting"
    /\ UNCHANGED << hookVars, dataVars, cacheUrls, deleted, swState, skipWaitingFlag, oldActive, caches, installPc,
                    installFailed, installPromise, claimed, fetches >>

\* One caches.delete(cacheName) completes.
ActivateDelete(n) ==
    /\ activatePc = "deleting"
    /\ n \in toDelete
    /\ caches' = CachesDelete(caches, n)
    /\ toDelete' = toDelete \ {n}
    /\ deleted' = deleted \cup {n}
    /\ UNCHANGED << hookVars, dataVars, cacheUrls, swState, skipWaitingFlag, oldActive, installPc,
                    installFailed, installPromise, activatePc, claimed,
                    fetches >>

\* Promise.all has resolved: self.clients.claim()
ActivateClaim ==
    /\ activatePc = "deleting"
    /\ toDelete = {}
    /\ claimed' = TRUE
    /\ activatePc' = "done"
    /\ UNCHANGED << hookVars, dataVars, cacheUrls, deleted, swState, skipWaitingFlag, oldActive, caches, installPc,
                    installFailed, installPromise, toDelete, fetches >>

\* The promise given to waitUntil by activate has settled: activated.
ActivateSettled ==
    /\ swState = "activating"
    /\ activatePc = "done"
    /\ swState' = "activated"
    /\ UNCHANGED << hookVars, dataVars, cacheUrls, deleted, skipWaitingFlag, oldActive, caches, installPc,
                    installFailed, installPromise, activatePc, toDelete,
                    claimed, fetches >>

(***************************************************************************)
(* Service worker: message listener.                                       *)
(***************************************************************************)
\* {type: 'SKIP_WAITING'}
MessageSkipWaiting ==
    /\ swState \in {"installing", "installed"}
    /\ ~skipWaitingFlag
    /\ skipWaitingFlag' = TRUE
    /\ UNCHANGED << hookVars, dataVars, cacheUrls, deleted, swState, oldActive, caches, installPc, installFailed,
                    installPromise, activatePc, toDelete, claimed, fetches >>

\* The url lists a page sends with {type: 'CACHE_URLS', urls}.
CacheUrlsLists == { << "/docs", "/assets/app.js" >> }

CacheUrlsKeys(urls) == { Resolve(urls[i]) : i \in 1..Len(urls) }

\* The worker receives {type: 'CACHE_URLS', urls}: event.waitUntil is given
\* a chain that starts with caches.open(DYNAMIC_CACHE_NAME).
MessageCacheUrls(urls) ==
    /\ swState \in {"installing", "installed", "activating", "activated"}
    /\ cacheUrls.pc = "idle"
    /\ cacheUrls' = [cacheUrls EXCEPT !.pc = "open", !.urls = urls]
    /\ UNCHANGED << hookVars, dataVars, swState, skipWaitingFlag, oldActive, caches,
                    installPc, installFailed, installPromise, activatePc,
                    toDelete, claimed, deleted, fetches >>

\* caches.open(DYNAMIC_CACHE_NAME) of the chain resolves.
CacheUrlsOpen ==
    /\ cacheUrls.pc = "open"
    /\ caches' = CachesOpen(caches, DYNAMIC_CACHE_NAME)
    /\ cacheUrls' = [cacheUrls EXCEPT !.pc = "addAll"]
    /\ UNCHANGED << hookVars, dataVars, swState, skipWaitingFlag, oldActive, installPc,
                    installFailed, installPromise, activatePc, toDelete,
                    claimed, deleted, fetches >>

\* cache.addAll(event.data.urls): bad is the set of URLs whose fetch fails
\* (rejects or is not ok), the others are fetched. addAll commits all
\* entries or none, and rejects when one fetch failed.
CacheUrlsAddAll ==
    /\ cacheUrls.pc = "addAll"
    /\ \E bad \in SUBSET CacheUrlsKeys(cacheUrls.urls) :
          LET keys == CacheUrlsKeys(cacheUrls.urls)
          IN IF bad = {}
             THEN /\ caches' = CachePutAll(caches, DYNAMIC_CACHE_NAME,
                                  [k \in keys |-> NetResponse(k, 200, "basic")])
                  /\ cacheUrls' = [cacheUrls EXCEPT !.pc = "done",
                                                    !.fetched = keys]
             ELSE /\ caches' = caches
                  /\ cacheUrls' = [cacheUrls EXCEPT !.pc = "rejected",
                                                    !.fetched = keys \ bad]
    /\ UNCHANGED << hookVars, dataVars, swState, skipWaitingFlag, oldActive, installPc,
                    installFailed, installPromise, activatePc, toDelete,
                    claimed, deleted, fetches >>

(***************************************************************************)
(* Service worker: fetch listener.                                         *)
(***************************************************************************)
\* The fetch event i is the next one the worker receives.
NextFetch(i) ==
    /\ fetches[i].pc = "idle"
    /\ \A j \in 1..(i - 1) : fetches[j].pc # "idle"

\* Whether some cache holds an entry for the key.
KeyCached(cs, key) == \E i \in 1..Len(cs) : key \in DOMAIN cs[i].entries

\* Mutant of LookupCached: only the static cache is asked
\* (caches.open(STATIC_CACHE_NAME).then(c => c.match(request))).
LookupStaticOnly(cs, req) ==
    IF req.url \in DOMAIN EntriesOf(cs, STATIC_CACHE_NAME)
    THEN EntriesOf(cs, STATIC_CACHE_NAME)[req.url]
    ELSE Undefined

\* caches.match(request), the first step of the respondWith chain.
LookupCached(cs, req) == CachesMatch(cs, req.url)

\* The browser dispatches a fetch event to the active worker. The listener
\* returns without respondWith for cross-origin and excluded requests, and
\* otherwise calls respondWith with a chain that starts at caches.match.
FetchEvent(i, req) ==
    /\ swState = "activated"
    /\ NextFetch(i)
    /\ fetches' = [fetches EXCEPT ![i] =
          [IdleFetch EXCEPT !.req = req,
                            !.pc = IF Bypasses(req) THEN "bypassed"
                                   ELSE "match"]]
    /\ UNCHANGED << hookVars, dataVars, cacheUrls, deleted, swState, skipWaitingFlag, oldActive, caches, installPc,
                    installFailed, installPromise, activatePc, toDelete,
                    claimed >>

\* caches.match(request) resolves: the cached response is returned when
\* there is one, otherwise fetch(request) is called.
FetchMatch(i) ==
    /\ fetches[i].pc = "match"
    /\ LET cachedResponse == LookupCached(caches, fetches[i].req)
       IN fetches' = [fetches EXCEPT ![i] =
             IF IsResponse(cachedResponse)
             THEN [@ EXCEPT !.pc = "done", !.resp = cachedResponse,
                            !.hit = KeyCached(caches, fetches[i].req.url)]
             ELSE [@ EXCEPT !.pc = "net", !.net = TRUE,
                            !.hit = KeyCached(caches, fetches[i].req.url)]]
    /\ UNCHANGED << hookVars, dataVars, cacheUrls, deleted, swState, skipWaitingFlag, oldActive, caches, installPc,
                    installFailed, installPromise, activatePc, toDelete,
                    claimed >>

\* fetch(request) resolves with a response. A response that is not status
\* 200, type basic is returned as it is: the chain resolves with it. Any
\* other response is cloned, the store of the clone into the dynamic cache is
\* started and the response is returned; the chain has yet to resolve with
\* it while the store is under way.
FetchNetResolve(i, kind) ==
    /\ fetches[i].pc = "net"
    /\ LET response == NetResponse(fetches[i].req.url, kind.status, kind.type)
       IN fetches' = [fetches EXCEPT ![i] =
             IF IsCacheable(response)
             THEN [@ EXCEPT !.pc = "respond", !.resp = response,
                            !.clone = response, !.put = "open"]
             ELSE [@ EXCEPT !.pc = "done", !.resp = response]]
    /\ UNCHANGED << hookVars, dataVars, cacheUrls, deleted, swState, skipWaitingFlag, oldActive, caches, installPc,
                    installFailed, installPromise, activatePc, toDelete,
                    claimed >>

\* fetch(request) rejects: the .catch handler asks the caches for
\* '/index.html' when the destination is a document, and otherwise returns
\* the synthesized 503 response.
FetchNetReject(i) ==
    /\ fetches[i].pc = "net"
    /\ fetches' = [fetches EXCEPT ![i] =
          IF fetches[i].req.destination = "document"
          THEN [@ EXCEPT !.pc = "fallback", !.failed = TRUE]
          ELSE [@ EXCEPT !.pc = "done", !.failed = TRUE,
                         !.resp = OfflineResponse]]
    /\ UNCHANGED << hookVars, dataVars, cacheUrls, deleted, swState, skipWaitingFlag, oldActive, caches, installPc,
                    installFailed, installPromise, activatePc, toDelete,
                    claimed >>

\* Mutant of CanDeliver: the handler returns the response from the end of
\* the store's chain (return caches.open(...).then(...put...).then(() =>
\* response)), so the response waits for the store.
CanDeliverAfterStore(f) == f.pc = "respond" /\ f.put = "stored"

\* The handler returns the response without chaining on the store.
CanDeliver(f) == f.pc = "respond"

\* The chain given to respondWith resolves with the returned response: it is
\* delivered to the caller.
FetchDeliver(i) ==
    /\ CanDeliver(fetches[i])
    /\ fetches' = [fetches EXCEPT ![i].pc = "done"]
    /\ UNCHANGED << hookVars, dataVars, cacheUrls, deleted, swState, skipWaitingFlag,
                    oldActive, caches, installPc, installFailed,
                    installPromise, activatePc, toDelete, claimed >>

\* caches.match('/index.html') resolves, with a response or with undefined;
\* the chain resolves with that value.
FetchFallback(i) ==
    /\ fetches[i].pc = "fallback"
    /\ fetches' = [fetches EXCEPT ![i] =
          [@ EXCEPT !.pc = "done",
                    !.resp = CachesMatch(caches, Resolve("/index.html"))]]
    /\ UNCHANGED << hookVars, dataVars, cacheUrls, deleted, swState, skipWaitingFlag, oldActive, caches, installPc,
                    installFailed, installPromise, activatePc, toDelete,
                    claimed >>

\* caches.open(DYNAMIC_CACHE_NAME) of the store resolves.
FetchPutOpen(i) ==
    /\ fetches[i].put = "open"
    /\ caches' = CachesOpen(caches, DYNAMIC_CACHE_NAME)
    /\ fetches' = [fetches EXCEPT ![i].put = "put"]
    /\ UNCHANGED << hookVars, dataVars, cacheUrls, deleted, swState, skipWaitingFlag, oldActive, installPc,
                    installFailed, installPromise, activatePc, toDelete,
                    claimed >>

\* cache.put(request, responseToCache) completes, or fails (quota).
FetchPut(i) ==
    /\ fetches[i].put = "put"
    /\ \E ok \in BOOLEAN :
          IF ok
          THEN /\ caches' = CachePut(caches, DYNAMIC_CACHE_NAME,
                                     fetches[i].req.url, fetches[i].clone)
               /\ fetches' = [fetches EXCEPT ![i].put = "stored"]
          ELSE /\ caches' = caches
               /\ fetches' = [fetches EXCEPT ![i].put = "failed"]
    /\ UNCHANGED << hookVars, dataVars, cacheUrls, deleted, swState, skipWaitingFlag, oldActive, installPc,
                    installFailed, installPromise, activatePc, toDelete,
                    claimed >>

NextSW ==
    \/ InstallEvent
    \/ InstallOpen
    \/ InstallAddAll
    \/ InstallSkipWaiting
    \/ InstallCatch
    \/ InstallSettled
    \/ OldWorkerGone
    \/ ActivateEvent
    \/ ActivateKeys
    \/ \E n \in CacheNames(caches) : ActivateDelete(n)
    \/ ActivateClaim
    \/ ActivateSettled
    \/ MessageSkipWaiting
    \/ \E i \in 1..MaxFetch, req \in Requests : FetchEvent(i, req)
    \/ \E i \in 1..MaxFetch : FetchMatch(i)
    \/ \E i \in 1..MaxFetch, kind \in NetKinds : FetchNetResolve(i, kind)
    \/ \E i \in 1..MaxFetch : FetchDeliver(i)
    \/ \E i \in 1..MaxFetch : FetchNetReject(i)
    \/ \E i \in 1..MaxFetch : FetchFallback(i)
    \/ \E i \in 1..MaxFetch : FetchPutOpen(i)
    \/ \E i \in 1..MaxFetch : FetchPut(i)

\* The worker's life cycle and its message listener, without fetch events.
NextMsg ==
    \/ InstallEvent
    \/ InstallOpen
    \/ InstallAddAll
    \/ InstallSkipWaiting
    \/ InstallCatch
    \/ InstallSettled
    \/ OldWorkerGone
    \/ ActivateEvent
    \/ ActivateKeys
    \/ \E n \in CacheNames(caches) : ActivateDelete(n)
    \/ ActivateClaim
    \/ ActivateSettled
    \/ MessageSkipWaiting
    \/ \E urls \in CacheUrlsLists : MessageCacheUrls(urls)
    \/ CacheUrlsOpen
    \/ CacheUrlsAddAll

(***************************************************************************)
(* usePWAInstall.                                                          *)
(***************************************************************************)
NoEvent == 0

Events == 1..MaxEvents

\* document.referrer
Referrers == {"", "android-app://com.lumina.twa"}

\* navigator.standalone (only iOS Safari defines it)
StandaloneValues == {"undefined", "true"}

\* The signals of one page: at most one of the three is set at a time.
SignalStates ==
    { sig \in [displayMode : BOOLEAN,
               navigatorStandalone : StandaloneValues,
               referrer : Referrers] :
        Cardinality({ n \in {1, 2, 3} :
            \/ n = 1 /\ sig.displayMode
            \/ n = 2 /\ sig.navigatorStandalone = "true"
            \/ n = 3 /\ sig.referrer # "" }) <= 1 }

NoSignals ==
    [displayMode |-> FALSE, navigatorStandalone |-> "undefined",
     referrer |-> ""]

\* How a userChoice promise settles.
ChoiceOutcomes == {"accepted", "dismissed", "rejected"}

IdleCall == [pc |-> "idle", ev |-> NoEvent]

\* The listeners and the interval the hook registers in its effect.
HookListeners ==
    { [type |-> "beforeinstallprompt", handler |-> "handleBeforeInstallPrompt"],
      [type |-> "appinstalled", handler |-> "handleAppInstalled"] }

HookInterval == "checkInstalled"

\* What other code of the page has registered on window.
PageListeners == { [type |-> "beforeinstallprompt", handler |-> "page"] }

PageTimers == { "page" }

\* window.addEventListener for the two handlers.
AddListeners(ls) == ls \cup HookListeners

\* Mutant of RemoveListeners: removeEventListener is given fresh function
\* objects, which match no registered listener.
RemoveListenersFresh(ls) == ls

\* window.removeEventListener for the two handlers.
RemoveListeners(ls) == ls \ HookListeners

\* setInterval(checkInstalled, 1000) and clearInterval(interval).
SetInterval(ts) == ts \cup {HookInterval}

ClearInterval(ts) == ts \ {HookInterval}

InitHook ==
    /\ phase = "rendered"
    /\ canInstall = FALSE
    /\ isInstalled = FALSE
    /\ isPrompting = FALSE
    /\ deferredPrompt = NoEvent
    /\ renderedPrompt = NoEvent
    /\ closures = {NoEvent}
    /\ signals \in SignalStates
    /\ fired = 0
    /\ prompts = [e \in Events |-> 0]
    /\ choice = [e \in Events |-> "pending"]
    /\ calls = [c \in 1..MaxCalls |-> IdleCall]
    /\ listeners = PageListeners
    /\ timers = PageTimers
    /\ byPoll = FALSE
    /\ sinceDone = FALSE

\* Mutant of CheckInstalled: only the display-mode media query is read.
CheckInstalledMediaOnly(sig) == sig.displayMode

\* checkInstalled: the value given to setIsInstalled.
CheckInstalled(sig) ==
    \/ sig.displayMode
    \/ sig.navigatorStandalone = "true"
    \/ Includes(sig.referrer, "android-app://")

\* The effect of useEffect runs after the first render: checkInstalled(),
\* the two listeners are added and the interval is started.
MountEffect ==
    /\ phase = "rendered"
    /\ phase' = "mounted"
    /\ isInstalled' = CheckInstalled(signals)
    /\ listeners' = AddListeners(listeners)
    /\ timers' = SetInterval(timers)
    /\ byPoll' = FALSE
    /\ UNCHANGED << swVars, dataVars, canInstall, isPrompting, deferredPrompt,
                    renderedPrompt, closures, signals, fired, prompts,
                    choice, calls, sinceDone >>

\* The browser's signals change: a signal becomes set, or the display mode
\* stops matching (the referrer and navigator.standalone are never unset
\* during the life of a page).
SignalChange(sig) ==
    /\ phase = "mounted"
    /\ sig # signals
    /\ signals = NoSignals \/ (signals.displayMode /\ sig = NoSignals)
    /\ signals' = sig
    /\ UNCHANGED << swVars, dataVars, listeners, timers, phase, canInstall, isInstalled, isPrompting,
                    deferredPrompt, renderedPrompt, closures, fired, prompts,
                    choice, calls, byPoll, sinceDone >>

\* setInterval(checkInstalled, 1000) fires.
PollTick ==
    /\ HookInterval \in timers
    /\ IF phase = "mounted"
       THEN /\ isInstalled' = CheckInstalled(signals)
            /\ byPoll' = IF CheckInstalled(signals)
                         THEN (IF isInstalled THEN byPoll ELSE TRUE)
                         ELSE FALSE
       ELSE UNCHANGED << isInstalled, byPoll >>
    /\ UNCHANGED << swVars, dataVars, listeners, timers, phase, canInstall, isPrompting, deferredPrompt,
                    renderedPrompt, closures, signals, fired, prompts,
                    choice, calls, sinceDone >>

\* handleBeforeInstallPrompt: the browser fires a beforeinstallprompt event;
\* it is captured when it has a prompt method, and ignored otherwise.
BeforeInstallPrompt(hasPrompt) ==
    /\ [type |-> "beforeinstallprompt",
        handler |-> "handleBeforeInstallPrompt"] \in listeners
    /\ fired < MaxEvents
    /\ IF hasPrompt /\ phase = "mounted"
       THEN /\ fired' = fired + 1
            /\ deferredPrompt' = fired + 1
            /\ canInstall' = TRUE
            /\ sinceDone' = FALSE
       ELSE UNCHANGED << fired, deferredPrompt, canInstall, sinceDone >>
    /\ UNCHANGED << swVars, dataVars, listeners, timers, phase, isInstalled, isPrompting, renderedPrompt,
                    closures, signals, prompts, choice, calls, byPoll >>

\* handleAppInstalled
AppInstalled ==
    /\ [type |-> "appinstalled", handler |-> "handleAppInstalled"] \in listeners
    /\ IF phase = "mounted"
       THEN /\ isInstalled' = TRUE
            /\ canInstall' = FALSE
            /\ deferredPrompt' = NoEvent
            /\ byPoll' = (isInstalled /\ byPoll)
       ELSE UNCHANGED << isInstalled, canInstall, deferredPrompt, byPoll >>
    /\ UNCHANGED << swVars, dataVars, listeners, timers, phase, isPrompting, renderedPrompt, closures,
                    signals, fired, prompts, choice, calls, sinceDone >>

\* React renders the component again: a new promptInstall closure captures
\* the current deferredPrompt.
Render ==
    /\ phase = "mounted"
    /\ renderedPrompt # deferredPrompt
    /\ renderedPrompt' = deferredPrompt
    /\ closures' = closures \cup {deferredPrompt}
    /\ UNCHANGED << swVars, dataVars, listeners, timers, phase, canInstall, isInstalled, isPrompting,
                    deferredPrompt, signals, fired, prompts, choice, calls,
                    byPoll, sinceDone >>

\* The cleanup of the effect: listeners removed, interval cleared. The
\* component is gone: its state keeps its last values, nothing reads the
\* browser's signals any more and the closures of its renders are released
\* (the variables that only record them return to their initial values).
Unmount ==
    /\ phase = "mounted"
    /\ phase' = "unmounted"
    /\ signals' = NoSignals
    /\ renderedPrompt' = NoEvent
    /\ closures' = {NoEvent}
    /\ byPoll' = FALSE
    /\ sinceDone' = FALSE
    /\ listeners' = RemoveListeners(listeners)
    /\ timers' = ClearInterval(timers)
    /\ UNCHANGED << swVars, dataVars, canInstall, isInstalled, isPrompting,
                    deferredPrompt, fired, prompts, choice, calls >>

(***************************************************************************)
(* usePWAInstall: promptInstall.                                           *)
(***************************************************************************)
NextCall(c) ==
    /\ calls[c].pc = "idle"
    /\ \A d \in 1..(c - 1) : calls[d].pc # "idle"

InFlight(c) == calls[c].pc \in {"awaitPrompt", "awaitChoice"}

\* The record of a call that has run to its end.
Returned == [pc |-> "done", ev |-> NoEvent]

HookState ==
    [canInstall |-> canInstall, isInstalled |-> isInstalled,
     isPrompting |-> isPrompting, deferredPrompt |-> deferredPrompt]

\* The setters act on a mounted component only.
SetState(st) ==
    IF phase = "mounted"
    THEN /\ canInstall' = st.canInstall
         /\ isInstalled' = st.isInstalled
         /\ isPrompting' = st.isPrompting
         /\ deferredPrompt' = st.deferredPrompt
    ELSE UNCHANGED << canInstall, isInstalled, isPrompting, deferredPrompt >>

\* Mutant of AfterError: the catch path without the finally block.
AfterErrorNoFinally(st) ==
    [st EXCEPT !.deferredPrompt = NoEvent, !.canInstall = FALSE]

\* Mutant of AfterError: the catch block only logs, the capture is kept.
AfterErrorKeepsCapture(st) ==
    [st EXCEPT !.isPrompting = FALSE]

\* Mutant of AfterChoice: the capture is cleared, canInstall is not.
AfterChoiceKeepsCanInstall(st, outcome) ==
    [st EXCEPT !.isInstalled = IF outcome = "accepted" THEN TRUE ELSE @,
               !.deferredPrompt = NoEvent,
               !.isPrompting = FALSE]

\* The try block after both awaits, then finally.
AfterChoice(st, outcome) ==
    [st EXCEPT !.isInstalled = IF outcome = "accepted" THEN TRUE ELSE @,
               !.deferredPrompt = NoEvent,
               !.canInstall = FALSE,
               !.isPrompting = FALSE]

\* The catch block, then finally.
AfterError(st) ==
    [st EXCEPT !.deferredPrompt = NoEvent,
               !.canInstall = FALSE,
               !.isPrompting = FALSE]

\* promptInstall() is called through a closure that captured the value
\* `captured` of deferredPrompt: it warns and returns when that is null,
\* and otherwise sets isPrompting and invokes captured.prompt().
PromptInstallCall(c, captured) ==
    /\ phase = "mounted"
    /\ NextCall(c)
    /\ captured \in closures
    /\ IF captured = NoEvent
       THEN /\ calls' = [calls EXCEPT ![c] =
                  [pc |-> "warned", ev |-> NoEvent]]
            /\ UNCHANGED << isPrompting, prompts >>
       ELSE /\ calls' = [calls EXCEPT ![c] =
                  [pc |-> "awaitPrompt", ev |-> captured]]
            /\ isPrompting' = TRUE
            /\ prompts' = [prompts EXCEPT ![captured] = @ + 1]
    /\ UNCHANGED << swVars, dataVars, listeners, timers, phase, canInstall, isInstalled, deferredPrompt,
                    renderedPrompt, closures, signals, fired, choice,
                    byPoll, sinceDone >>

\* The promise of prompt() settles: resolved, the call awaits userChoice;
\* rejected, the catch and finally blocks run.
PromptSettle(c, ok) ==
    /\ calls[c].pc = "awaitPrompt"
    /\ IF ok
       THEN /\ calls' = [calls EXCEPT ![c].pc = "awaitChoice"]
            /\ UNCHANGED << canInstall, isInstalled, isPrompting,
                            deferredPrompt, sinceDone >>
       ELSE /\ calls' = [calls EXCEPT ![c] = Returned]
            /\ SetState(AfterError(HookState))
            /\ sinceDone' = (phase = "mounted")
    /\ UNCHANGED << swVars, dataVars, listeners, timers, phase, renderedPrompt, closures, signals, fired,
                    prompts, choice, byPoll >>

\* The userChoice promise of the call's event settles (the user answers the
\* dialog, or the promise rejects) or has settled before, with the same
\* outcome for every call that awaits it: the rest of the try block (or the
\* catch block) and the finally block run.
ChoiceSettle(c, outcome) ==
    /\ calls[c].pc = "awaitChoice"
    /\ choice[calls[c].ev] \in {"pending", outcome}
    /\ choice' = [choice EXCEPT ![calls[c].ev] = outcome]
    /\ calls' = [calls EXCEPT ![c] = Returned]
    /\ SetState(IF outcome = "rejected" THEN AfterError(HookState)
                ELSE AfterChoice(HookState, outcome))
    /\ UNCHANGED byPoll
    /\ sinceDone' = (phase = "mounted")
    /\ UNCHANGED << swVars, dataVars, listeners, timers, phase, renderedPrompt, closures, signals, fired,
                    prompts >>

NextHook ==
    \/ MountEffect
    \/ \E sig \in SignalStates : SignalChange(sig)
    \/ PollTick
    \/ \E hasPrompt \in BOOLEAN : BeforeInstallPrompt(hasPrompt)
    \/ AppInstalled
    \/ Render
    \/ Unmount
    \/ \E c \in 1..MaxCalls, captured \in Events \cup {NoEvent} :
          PromptInstallCall(c, captured)
    \/ \E c \in 1..MaxCalls, ok \in BOOLEAN : PromptSettle(c, ok)
    \/ \E c \in 1..MaxCalls, outcome \in ChoiceOutcomes :
          ChoiceSettle(c, outcome)

(***************************************************************************)
(* useDataManagement.                                                      *)
(***************************************************************************)
\* The files a user may pick, and what file.text() resolves with.
FileNames == {"notes.txt", "paper.md"}

FileText(name) == "text of " \o name

\* Math.random() of the call u of handleFileUpload: the values of different
\* calls are taken to differ.
RandomId(u) == u

IdleUpload == [pc |-> "idle", name |-> "", read |-> "pending"]

IdleIndex == [pc |-> "idle", fn |-> "", out |-> "pending"]

InitData ==
    /\ files = << >>
    /\ renderedFiles = << >>
    /\ isIndexing = FALSE
    /\ ragStatus = "Idle"
    /\ uploads = [u \in 1..MaxUploads |-> IdleUpload]
    /\ indexCalls = [k \in 1..MaxIndexCalls |-> IdleIndex]
    /\ removed = {}

\* addFile: a functional update of the list.
AddFile(prev, file) == Append(prev, file)

\* Mutant of AfterRead: a failed read adds nothing.
AfterReadSilentFail(prev, name, id, ok, content) ==
    IF ok
    THEN AddFile(prev, [name |-> name, id |-> id, content |-> content])
    ELSE prev

\* handleFileUpload after file.text() has settled: the try block adds the
\* entry with its content, the catch block adds it without content.
AfterRead(prev, name, id, ok, content) ==
    IF ok
    THEN AddFile(prev, [name |-> name, id |-> id, content |-> content])
    ELSE AddFile(prev, [name |-> name, id |-> id])

NextUpload(u) ==
    /\ uploads[u].pc = "idle"
    /\ \A v \in 1..(u - 1) : uploads[v].pc # "idle"

\* handleFileUpload(file) is called: the id is drawn and file.text() awaited.
HandleFileUpload(u, name) ==
    /\ NextUpload(u)
    /\ uploads' = [uploads EXCEPT ![u] =
          [pc |-> "reading", name |-> name, read |-> "pending"]]
    /\ UNCHANGED << swVars, hookVars, files, renderedFiles, isIndexing,
                    ragStatus, indexCalls, removed >>

\* file.text() settles and the entry is added.
UploadSettle(u, ok) ==
    /\ uploads[u].pc = "reading"
    /\ files' = AfterRead(files, uploads[u].name, RandomId(u), ok,
                          FileText(uploads[u].name))
    /\ uploads' = [uploads EXCEPT ![u].pc = "done",
                                  ![u].read = IF ok THEN "resolved"
                                              ELSE "rejected"]
    /\ UNCHANGED << swVars, hookVars, renderedFiles, isIndexing, ragStatus,
                    indexCalls, removed >>

\* removeFile(id), with the id of an entry of the list that is shown.
RemoveFile(id) ==
    /\ \E i \in 1..Len(renderedFiles) : renderedFiles[i].id = id
    /\ id \notin removed
    /\ files' = SelectSeq(files, LAMBDA f : f.id # id)
    /\ removed' = removed \cup {id}
    /\ UNCHANGED << swVars, hookVars, renderedFiles, isIndexing, ragStatus,
                    uploads, indexCalls >>

\* React renders the host again: the closures of indexDocuments and of the
\* view capture the current list.
DataRender ==
    /\ renderedFiles # files
    /\ renderedFiles' = files
    /\ UNCHANGED << swVars, hookVars, files, isIndexing, ragStatus, uploads,
                    indexCalls, removed >>

NextIndex(k) ==
    /\ indexCalls[k].pc = "idle"
    /\ \A j \in 1..(k - 1) : indexCalls[j].pc # "idle"

\* How indexing may be given: with a ragIndexFunction, or without one.
IndexFunctions == {"callback", "absent"}

\* Mutant of AfterIndex: no catch block, the status is not set on rejection.
AfterIndexNoCatch(status, ok) ==
    [ragStatus |-> IF ok THEN "Knowledge Base Ready" ELSE status,
     isIndexing |-> FALSE]

\* indexDocuments after its await: the end of the try block or the catch
\* block, then finally.
AfterIndex(status, ok) ==
    [ragStatus |-> IF ok THEN "Knowledge Base Ready" ELSE "Indexing Failed",
     isIndexing |-> FALSE]

\* indexDocuments(ragIndexFunction) is called: it returns at once when the
\* list of its closure is empty, and otherwise sets isIndexing and the status
\* and awaits the callback, or the 1500 ms timer when there is none.
IndexDocuments(k, fn) ==
    /\ NextIndex(k)
    /\ IF Len(renderedFiles) = 0
       THEN /\ indexCalls' = [indexCalls EXCEPT ![k] =
                  [pc |-> "returned", fn |-> fn, out |-> "pending"]]
            /\ UNCHANGED << isIndexing, ragStatus >>
       ELSE /\ indexCalls' = [indexCalls EXCEPT ![k] =
                  [pc |-> "awaiting", fn |-> fn, out |-> "pending"]]
            /\ isIndexing' = TRUE
            /\ ragStatus' = "Indexing..."
    /\ UNCHANGED << swVars, hookVars, files, renderedFiles, uploads, removed >>

\* The awaited promise settles: the callback resolves or rejects, the timer
\* resolves.
IndexSettle(k, ok) ==
    /\ indexCalls[k].pc = "awaiting"
    /\ indexCalls[k].fn = "absent" => ok
    /\ indexCalls' = [indexCalls EXCEPT ![k].pc = "done",
                                        ![k].out = IF ok THEN "resolved"
                                                   ELSE "rejected"]
    /\ ragStatus' = AfterIndex(ragStatus, ok).ragStatus
    /\ isIndexing' = AfterIndex(ragStatus, ok).isIndexing
    /\ UNCHANGED << swVars, hookVars, files, renderedFiles, uploads, removed >>

\* The file list: uploads, removals and renders.
NextData ==
    \/ \E u \in 1..MaxUploads, name \in FileNames : HandleFileUpload(u, name)
    \/ \E u \in 1..MaxUploads, ok \in BOOLEAN : UploadSettle(u, ok)
    \/ \E u \in 1..MaxUploads : RemoveFile(RandomId(u))
    \/ DataRender

\* Indexing, over a list that is empty or holds one uploaded file, which may
\* be removed.
NextIndexing ==
    \/ \E k \in 1..MaxIndexCalls, fn \in IndexFunctions : IndexDocuments(k, fn)
    \/ \E k \in 1..MaxIndexCalls, ok \in BOOLEAN : IndexSettle(k, ok)
    \/ \E u \in 1..MaxUploads : RemoveFile(RandomId(u))
    \/ DataRender

\* The state after one upload, of a readable or of an unreadable file, has
\* completed and the host has rendered again.
AfterOneUpload(name, ok) ==
    /\ files = AfterRead(<< >>, name, RandomId(1), ok, FileText(name))
    /\ renderedFiles = files
    /\ isIndexing = FALSE
    /\ ragStatus = "Idle"
    /\ uploads = [u \in 1..MaxUploads |->
                     IF u = 1
                     THEN [pc |-> "done", name |-> name,
                           read |-> IF ok THEN "resolved" ELSE "rejected"]
                     ELSE IdleUpload]
    /\ indexCalls = [k \in 1..MaxIndexCalls |-> IdleIndex]
    /\ removed = {}

(***************************************************************************)
(* Specifications.                                                         *)
(***************************************************************************)
\* The worker's specification: the hook stays as constructed.
HookIdle ==
    /\ InitHook
    /\ signals = NoSignals

\* The hook's specification: the worker stays as parsed.
SWIdle ==
    /\ InitSW
    /\ caches = << >>
    /\ oldActive = FALSE

\* The worker script evaluated, no hook activity.
InitWorker ==
    /\ InitSW
    /\ HookIdle
    /\ InitData

\* The hook constructed, no worker activity.
InitPage ==
    /\ InitHook
    /\ SWIdle
    /\ InitData

\* The data hook constructed, no worker and no install-hook activity.
InitFiles ==
    /\ InitData
    /\ HookIdle
    /\ SWIdle

SpecSW == InitWorker /\ [][NextSW]_vars

SpecHook == InitPage /\ [][NextHook]_vars

SpecMsg == InitWorker /\ [][NextMsg]_vars

SpecData == InitFiles /\ [][NextData]_vars

\* The data hook before indexing: as constructed, or after one upload.
InitIndexing ==
    /\ InitData \/ \E name \in FileNames, ok \in BOOLEAN :
                       AfterOneUpload(name, ok)
    /\ HookIdle
    /\ SWIdle

SpecIndex == InitIndexing /\ [][NextIndexing]_vars

(***************************************************************************)
(* Claims about the service worker (checked under SpecSW).                 *)
(***************************************************************************)
Intercepted(i) == fetches[i].pc \notin {"idle", "bypassed"}

C2_ActivationCleanup ==
    swState = "activated" =>
        \A n \in CacheNames(caches) :
            StartsWith(n, "lumina-rag-") =>
                n \in {STATIC_CACHE_NAME, DYNAMIC_CACHE_NAME}

\* Activation completed after deleting two stale generations and keeping
\* the static cache and a cache of another application.
C2_Witness ==
    /\ swState = "activated"
    /\ deleted = {CACHE_NAME, "lumina-rag-static-v0"}
    /\ CachesHas(caches, STATIC_CACHE_NAME)
    /\ CachesHas(caches, "workbox-precache-v2")

\* C3 (install is fail-fast), as claimed: when a manifest fetch failed, the
\* promise given to waitUntil does not resolve, the worker never becomes
\* installed or activated, and no manifest entry is in the static cache.
C3_InstallFailFast ==
    installFailed =>
        /\ installPromise # "resolved"
        /\ swState \notin {"installed", "activating", "activated"}
        /\ \A k \in StaticKeys :
              k \notin DOMAIN EntriesOf(caches, STATIC_CACHE_NAME)

\* C4 (offline navigation fallback), as claimed: a document request that
\* missed the cache and whose network fetch rejected is answered with the
\* root document stored at install, in every reachable state.
C4_OfflineFallback ==
    \A i \in 1..MaxFetch :
        ( /\ fetches[i].pc = "done"
          /\ fetches[i].failed
          /\ fetches[i].req.destination = "document" ) =>
            fetches[i].resp = StaticResponse(IndexUrl)

\* C5 (network failure recovered locally), as claimed: a run that missed
\* the cache and whose network fetch rejected resolves respondWith's promise
\* with a response, the synthesized 503 when the destination is not a
\* document.
C5_RecoveredLocally ==
    \A i \in 1..MaxFetch :
        (fetches[i].pc = "done" /\ fetches[i].failed) =>
            /\ IsResponse(fetches[i].resp)
            /\ fetches[i].req.destination # "document" =>
                  /\ fetches[i].resp = OfflineResponse
                  /\ fetches[i].resp.status = 503

\* C14 (CACHE_URLS is best-effort, not atomic), as claimed: once the chain
\* of a CACHE_URLS message has settled, every URL of the list that was
\* fetched successfully is in the dynamic cache, also when the fetch of
\* another URL of the list failed.
C14_CacheUrlsBestEffort ==
    cacheUrls.pc \in {"done", "rejected"} =>
        \A k \in cacheUrls.fetched :
            k \in DOMAIN EntriesOf(caches, DYNAMIC_CACHE_NAME)

\* The network has answered run i (the fetch did not reject).
Answered(i) ==
    /\ fetches[i].net
    /\ ~fetches[i].failed
    /\ fetches[i].pc \in {"respond", "done"}

\* C15 (dynamic-cache write rule): on a cache miss the handler starts the
\* store of the network response into the dynamic cache if and only if the
\* response has status 200 and type 'basic', and a completed store leaves it
\* under the request key; the caller's response is the network response in
\* both cases; and every write to a cache while fetch events are handled is
\* the store of such a response, into the dynamic cache only.
C15_DynamicWriteRule ==
    /\ [] ( \A i \in 1..MaxFetch :
              Answered(i) =>
                /\ fetches[i].resp.from = "network"
                /\ fetches[i].resp.body = fetches[i].req.url
                /\ fetches[i].put # "none" <=>
                      ( /\ fetches[i].resp.status = 200
                        /\ fetches[i].resp.type = "basic" )
                /\ fetches[i].put = "stored" =>
                      /\ fetches[i].req.url \in
                            DOMAIN EntriesOf(caches, DYNAMIC_CACHE_NAME)
                      /\ EntriesOf(caches, DYNAMIC_CACHE_NAME)
                            [fetches[i].req.url] = fetches[i].resp )
    /\ [][ (swState = "activated" /\ caches' # caches) =>
              /\ \E j \in 1..MaxFetch :
                    /\ fetches[j].put \in {"open", "put"}
                    /\ fetches'[j].put # fetches[j].put
                    /\ fetches[j].resp.status = 200
                    /\ fetches[j].resp.type = "basic"
              /\ \A n \in CacheNames(caches) \ {DYNAMIC_CACHE_NAME} :
                    /\ n \in CacheNames(caches')
                    /\ EntriesOf(caches', n) = EntriesOf(caches, n) ]_vars

\* One run got a 404 from the network and stored nothing; another got a 200
\* basic response, now in the dynamic cache under its request key.
C15_Witness ==
    \E i, j \in 1..MaxFetch :
        /\ Answered(i) /\ fetches[i].pc = "done"
        /\ fetches[i].resp.status = 404 /\ fetches[i].put = "none"
        /\ fetches[i].req.url \notin DOMAIN EntriesOf(caches, DYNAMIC_CACHE_NAME)
        /\ Answered(j) /\ fetches[j].put = "stored"
        /\ EntriesOf(caches, DYNAMIC_CACHE_NAME)[fetches[j].req.url]
              = NetResponse(fetches[j].req.url, 200, "basic")

\* The requests the claim exempts from interception.
Exempt(req) ==
    \/ UrlOrigin(req.url) # LocationOrigin
    \/ Includes(UrlPathname(req.url), "/workers/")
    \/ Includes(UrlPathname(req.url), "/node_modules/")
    \/ StartsWith(req.url, "chrome-extension://")
    \/ StartsWith(req.url, "moz-extension://")

ExemptRequests == { r \in Requests : Exempt(r) }

\* C16 (bypass): for a cross-origin request or an excluded path the fetch
\* listener returns without respondWith: no cache lookup, no network call and
\* no store is ever made for that event, and the event's step leaves the
\* caches as they were.
C16_Bypass ==
    /\ [] ( \A i \in 1..MaxFetch :
              (fetches[i].pc # "idle" /\ fetches[i].req \in ExemptRequests) =>
                /\ fetches[i].pc = "bypassed"
                /\ fetches[i].resp = Undefined
                /\ ~fetches[i].net /\ ~fetches[i].hit
                /\ fetches[i].put = "none" )
    /\ [][ \A i \in 1..MaxFetch :
              ( /\ fetches[i].pc = "idle" /\ fetches'[i].pc # "idle"
                /\ fetches'[i].req \in ExemptRequests ) =>
                    caches' = caches ]_vars

\* A same-origin request for a path under /workers/ was bypassed after
\* another request had been intercepted and answered.
C16_Witness ==
    \E i, j \in 1..MaxFetch :
        /\ fetches[i].pc = "done" /\ fetches[i].req \notin ExemptRequests
        /\ fetches[j].pc = "bypassed"
        /\ UrlOrigin(fetches[j].req.url) = LocationOrigin
        /\ Includes(fetches[j].req.url, "/workers/")

\* C17 (the store is fire-and-forget): on a cache miss with a cacheable
\* network response, the delivery of the response is possible in every state
\* of the store (not started, under way, completed, failed), and no step of
\* the store changes the response.
C17_StoreNeverBlocks ==
    /\ [] ( \A i \in 1..MaxFetch :
              fetches[i].pc = "respond" =>
                /\ ENABLED FetchDeliver(i)
                /\ fetches[i].resp = NetResponse(fetches[i].req.url, 200, "basic") )
    /\ [][ \A i \in 1..MaxFetch :
              fetches[i].pc \in {"respond", "done"} =>
                /\ fetches'[i].resp = fetches[i].resp
                /\ fetches'[i].pc \in {"respond", "done"} ]_vars

\* One response was delivered although its store failed; for another the
\* store completed before the delivery.
C17_Witness ==
    \E i, j \in 1..MaxFetch :
        /\ fetches[i].pc = "done" /\ fetches[i].put = "failed"
        /\ fetches[i].resp = fetches[i].clone
        /\ fetches[j].pc = "respond" /\ fetches[j].put = "stored"

\* C20 (activation stays inside the namespace): no step removes or changes a
\* cache whose name does not start with 'lumina-rag-', and once
\* clients.claim() was called no deletion is outstanding and no stale
\* 'lumina-rag-' cache is left.
C20_NamespaceOnly ==
    /\ [][ \A j \in 1..Len(caches) :
              ~StartsWith(caches[j].name, "lumina-rag-") =>
                  \E k \in 1..Len(caches') : caches'[k] = caches[j] ]_vars
    /\ [] ( claimed =>
              /\ toDelete = {}
              /\ \A n \in CacheNames(caches) :
                    StartsWith(n, "lumina-rag-") =>
                        n \in {STATIC_CACHE_NAME, DYNAMIC_CACHE_NAME} )

\* clients.claim() has just been called: two stale generations are deleted
\* and the cache of the other application is as it was.
C20_Witness ==
    /\ swState = "activating"
    /\ claimed
    /\ deleted = {CACHE_NAME, "lumina-rag-static-v0"}
    /\ \E k \in 1..Len(caches) : caches[k] = PreExisting[Len(PreExisting)]

(***************************************************************************)
(* Claims about usePWAInstall (checked under SpecHook).                    *)
(***************************************************************************)
\* Some signal of an installed application is set.
AnySignal(sig) ==
    \/ sig.displayMode = TRUE
    \/ sig.navigatorStandalone = "true"
    \/ \E i \in 1..Len(sig.referrer) :
          StartsWith(SubSeq(sig.referrer, i, Len(sig.referrer)),
                     "android-app://")

NoCallInFlight == \A c \in 1..MaxCalls : ~InFlight(c)

\* C6 (single-use prompt), as claimed: once a promptInstall() call that held
\* a capture has completed and no beforeinstallprompt event was captured
\* since, the capture is null, canInstall is false, and a promptInstall()
\* call that starts only warns: it invokes no prompt().
C6_SingleUsePrompt ==
    [][ (phase = "mounted" /\ sinceDone) =>
          /\ deferredPrompt = NoEvent
          /\ ~canInstall
          /\ \A c \in 1..MaxCalls :
                (calls[c].pc = "idle" /\ calls'[c].pc # "idle") =>
                    (calls'[c].pc = "warned" /\ prompts' = prompts) ]_vars

\* C7 (each capture consumed at most once), as claimed: prompt() is invoked
\* at most one time on any one captured event.
C7_AtMostOnePrompt == \A e \in Events : prompts[e] <= 1

\* C8 (installed is absorbing), as claimed: while the hook is mounted, a
\* step from a state where isInstalled is true leaves it true.
C8_InstalledAbsorbing ==
    [][ (phase = "mounted" /\ phase' = "mounted" /\ isInstalled) =>
            isInstalled' ]_vars

\* C9 (installed-state convergence): a poll tick taken while one of the
\* three signals is set leaves isInstalled true, whatever set the signal
\* and without any appinstalled event.
C9_Convergence == [][ PollTick => (AnySignal(signals) => isInstalled') ]_vars

\* isInstalled was false after mount and a poll tick raised it.
C9_Witness ==
    /\ phase = "mounted"
    /\ isInstalled /\ byPoll
    /\ AnySignal(signals)

\* C10 (guaranteed prompting cleanup): while the hook is mounted, the step
\* with which a promptInstall() call returns leaves isPrompting false, on
\* every path, and isPrompting is true only while some call is in flight.
C10_PromptingCleared ==
    /\ [][ \A c \in 1..MaxCalls :
              (phase = "mounted" /\ InFlight(c) /\ calls'[c].pc = "done") =>
                  ~isPrompting' ]_vars
    /\ [] ((phase = "mounted" /\ NoCallInFlight) => ~isPrompting)

\* A call has returned through the catch block (prompt() rejected before
\* any userChoice settled) and isPrompting is false again.
C10_Witness ==
    /\ phase = "mounted"
    /\ \E c \in 1..MaxCalls : calls[c].pc = "done"
    /\ \A e \in Events : choice[e] = "pending"
    /\ NoCallInFlight
    /\ ~isPrompting

\* C11 (promptInstall without a capture is a no-op), as claimed: a
\* promptInstall() call that starts while the hook holds no capture invokes
\* no prompt() and leaves canInstall, isInstalled, isPrompting and the
\* capture unchanged.
C11_NoOpWithoutCapture ==
    [][ \A c \in 1..MaxCalls :
          ( /\ phase = "mounted"
            /\ deferredPrompt = NoEvent
            /\ calls[c].pc = "idle" /\ calls'[c].pc # "idle" ) =>
              /\ prompts' = prompts
              /\ canInstall' = canInstall
              /\ isInstalled' = isInstalled
              /\ isPrompting' = isPrompting
              /\ deferredPrompt' = deferredPrompt ]_vars

\* C12 (install-prompt errors are recovered locally): while the hook is
\* mounted, the step in which prompt() or userChoice rejects inside a
\* promptInstall() call ends the call normally (its promise resolves), sets
\* the capture to null and canInstall to false, and leaves isInstalled as it
\* was.
C12_ErrorRecovered ==
    [][ \A c \in 1..MaxCalls :
          ( /\ phase = "mounted"
            /\ PromptSettle(c, FALSE) \/ ChoiceSettle(c, "rejected") ) =>
              /\ calls'[c] = Returned
              /\ deferredPrompt' = NoEvent
              /\ ~canInstall'
              /\ isInstalled' = isInstalled ]_vars

\* A userChoice promise rejected in an installed application: the call has
\* returned, the capture is gone and isInstalled is still true.
C12_Witness ==
    /\ phase = "mounted"
    /\ \E e \in Events : choice[e] = "rejected" /\ prompts[e] = 1
    /\ \E c \in 1..MaxCalls : calls[c] = Returned
    /\ NoCallInFlight
    /\ deferredPrompt = NoEvent
    /\ ~canInstall
    /\ isInstalled

\* C13 (teardown releases everything the hook registered): after the cleanup
\* of the effect, exactly the two listeners and the interval registered at
\* mount are gone (what other code registered is still there), and no step
\* changes canInstall, isInstalled or the capture any more.
C13_TeardownReleases ==
    /\ [] ( phase = "mounted" =>
              /\ listeners = PageListeners \cup HookListeners
              /\ timers = PageTimers \cup {HookInterval} )
    /\ [] ( phase = "unmounted" =>
              /\ listeners = PageListeners
              /\ timers = PageTimers )
    /\ [][ phase = "unmounted" =>
              /\ canInstall' = canInstall
              /\ isInstalled' = isInstalled
              /\ deferredPrompt' = deferredPrompt ]_vars

\* The hook was torn down while it held a capture and a promptInstall() call
\* was awaiting; the call has since returned.
C13_Witness ==
    /\ phase = "unmounted"
    /\ deferredPrompt # NoEvent
    /\ \E c \in 1..MaxCalls : calls[c] = Returned
    /\ listeners = PageListeners
    /\ timers = PageTimers

\* C21 (canInstall mirrors the capture): in every reachable state canInstall
\* is true exactly when a captured beforeinstallprompt event is held.
C21_CanInstallIffCapture == canInstall <=> (deferredPrompt # NoEvent)

\* A first capture was consumed by a promptInstall() call the user answered,
\* and a later event is now held: both were cleared and set together.
C21_Witness ==
    /\ phase = "mounted"
    /\ \E e \in Events : choice[e] \in {"accepted", "dismissed"}
    /\ \E c \in 1..MaxCalls : calls[c] = Returned
    /\ NoCallInFlight
    /\ deferredPrompt # NoEvent
    /\ prompts[deferredPrompt] = 0
    /\ canInstall

\* C22 (a call invalidates only the capture it consumed), as claimed: when a
\* promptInstall() call completes while the hook holds a capture other than
\* the event the call consumed, that capture is still held and canInstall is
\* still true afterwards.
C22_OnlyOwnCapture ==
    [][ \A c \in 1..MaxCalls :
          ( /\ phase = "mounted"
            /\ InFlight(c) /\ calls'[c] = Returned
            /\ deferredPrompt # NoEvent
            /\ deferredPrompt # calls[c].ev ) =>
              /\ deferredPrompt' = deferredPrompt
              /\ canInstall' ]_vars

(***************************************************************************)
(* Claims about useDataManagement (C18 under SpecData, C19 and C23 under   *)
(* SpecIndex).                                                             *)
(***************************************************************************)
\* The entries of the list that carry the id.
EntriesWithId(id) == { i \in 1..Len(files) : files[i].id = id }

\* C18 (upload resilience): every handleFileUpload call that has completed
\* has exactly one entry in the list, unless removeFile was called with its
\* id, with the file's name, and with content exactly when file.text()
\* resolved; a call that has not completed has none; the list holds nothing
\* else; and the completing step appends one entry and keeps all others.
C18_UploadResilience ==
    /\ [] ( /\ \A u \in 1..MaxUploads :
                 LET es == EntriesWithId(RandomId(u))
                 IN /\ Cardinality(es) =
                          IF uploads[u].pc = "done" /\ RandomId(u) \notin removed
                          THEN 1 ELSE 0
                    /\ \A i \in es :
                          /\ files[i].name = uploads[u].name
                          /\ "content" \in DOMAIN files[i] <=>
                                uploads[u].read = "resolved"
                          /\ uploads[u].read = "resolved" =>
                                files[i].content = FileText(uploads[u].name)
            /\ \A i \in 1..Len(files) :
                 \E u \in 1..MaxUploads : files[i].id = RandomId(u) )
    /\ [][ \A u \in 1..MaxUploads :
              (uploads[u].pc = "reading" /\ uploads'[u].pc = "done") =>
                  /\ Len(files') = Len(files) + 1
                  /\ SubSeq(files', 1, Len(files)) = files
                  /\ files'[Len(files')].id = RandomId(u) ]_vars

\* Two overlapping uploads: the second one completed first, with content;
\* the read of the first one rejected and its entry has no content field.
C18_Witness ==
    /\ MaxUploads >= 2
    /\ uploads[1].read = "rejected"
    /\ uploads[2].read = "resolved"
    /\ Len(files) = 2
    /\ files[1].id = RandomId(2) /\ "content" \in DOMAIN files[1]
    /\ files[2].id = RandomId(1) /\ "content" \notin DOMAIN files[2]

\* C19 (indexing failure is recovered locally): the step with which an
\* indexDocuments call that got past the empty-list test ends leaves
\* isIndexing false and ragStatus 'Indexing Failed' when the callback
\* rejected, 'Knowledge Base Ready' when it resolved or was absent; the call
\* itself always ends normally.
C19_IndexingRecovered ==
    /\ [][ \A k \in 1..MaxIndexCalls :
              (indexCalls[k].pc = "awaiting" /\ indexCalls'[k].pc # "awaiting") =>
                  /\ indexCalls'[k].pc = "done"
                  /\ ~isIndexing'
                  /\ indexCalls'[k].out = "rejected" =>
                        /\ indexCalls[k].fn = "callback"
                        /\ ragStatus' = "Indexing Failed"
                  /\ indexCalls'[k].out = "resolved" =>
                        ragStatus' = "Knowledge Base Ready" ]_vars
    /\ [] ( \A k \in 1..MaxIndexCalls :
              indexCalls[k].pc \in {"idle", "returned", "awaiting", "done"} )

\* The callback of a call rejected: the call has ended, the status is the
\* failed one and isIndexing is false.
C19_Witness ==
    /\ \E k \in 1..MaxIndexCalls :
          indexCalls[k].pc = "done" /\ indexCalls[k].out = "rejected"
    /\ \A k \in 1..MaxIndexCalls : indexCalls[k].pc # "awaiting"
    /\ ragStatus = "Indexing Failed"
    /\ ~isIndexing
    /\ Len(files) > 0

\* C23 (isIndexing covers every call in flight), as claimed: isIndexing is
\* true whenever an indexDocuments call is awaiting its callback or timer,
\* and the step with which a call finishes leaves ragStatus at that call's
\* outcome.
C23_IndexingWhileInFlight ==
    /\ [] ( (\E k \in 1..MaxIndexCalls : indexCalls[k].pc = "awaiting") =>
              isIndexing )
    /\ [][ \A k \in 1..MaxIndexCalls :
              (indexCalls[k].pc = "awaiting" /\ indexCalls'[k].pc = "done") =>
                  ragStatus' = IF indexCalls'[k].out = "resolved"
                               THEN "Knowledge Base Ready"
                               ELSE "Indexing Failed" ]_vars

====
